---- MODULE Spec2Model ----
(***************************************************************************)
(* Model of net::Channel (C++/net/channel.h, C++/net/channel.cpp) and of   *)
(* the template net::Channel<T> (channel.hpp): a client process calling    *)
(* send, a server process calling receive / receiveText, and the TCP       *)
(* connections between them.                                               *)
(*                                                                         *)
(* A blocking call is cut into one action per blocking point: every        *)
(* connection attempt of send, every sleep of send, the bind, the accept   *)
(* and the read of receive.  Everything a handler does between two         *)
(* blocking points belongs to the action of the first.                     *)
(*                                                                         *)
(* Spec: each process makes one call, over the full input sets.            *)
(* SpecPorts: every constructor argument, the server calls receive         *)
(* repeatedly.  SpecRace: a second receive call runs concurrently with the *)
(* server's.  SpecView: a template Channel<T> object makes a sequence of   *)
(* send and receive calls.                                                 *)
(***************************************************************************)
EXTENDS Integers, Sequences, FiniteSets, TLC

\* ---------------------------------------------------------------- bounds
\* Longest message (in bytes) of a send call.
MaxLen == 2
\* Capacity of the receive buffer in the model; the code's capacity is
\* 65536 (CHANNEL_H_MAX_BUFFER), the code is parametric in it.
BufferBound == 2
\* Largest value of the attempts parameter of a send call.
MaxAttempts == 3
\* Width of unsigned int in the model.  The code's unsigned int has 32 bits;
\* the model wraps at a smaller width, above every value i and attempts take.
UintBits == 4
\* Largest number of calls one process makes in SpecPorts and SpecView.
MaxCalls == 2

\* ------------------------------------------------------- program constants
CHANNEL_H_DEFAULT_PORT == 10000
CHANNEL_H_MAX_BUFFER == BufferBound
\* Largest valid port in the range tests "port < 1 || port > 65535".
PORT_MAX == 65535
\* unsigned int arithmetic wraps modulo 2^width.
UINT_MOD == 2 ^ UintBits
\* std::exit(1)
EXIT_STATUS == 1
\* '\0', the terminator written into the buffer.
SENTINEL == 0

\* ------------------------------------------------------------ input sets
\* net::byte is unsigned char: 0..255.  The sample holds an ASCII letter
\* ('h') and a value above 127.
ByteSample == {104, 200}
\* char is signed on the targets of this code: -128..127.
CharSample == {104, -56}
\* Arguments for a port parameter: below the range (also the default
\* argument of receive), in the range, above the range.
PortArgs == {0, 5000, 70000}
\* Ports a send call targets.
SendPorts == {5000}
\* Arguments the server's Channel is constructed with in Spec: none (the
\* default argument of the constructor) or the port the client targets.
ServerPorts == {CHANNEL_H_DEFAULT_PORT} \cup SendPorts
\* Arguments the server's Channel is constructed with in SpecPorts: below
\* the range (negative, zero), its ends, inside it, the default, above it.
CtorArgs == {-1, 0, 1, 5000, CHANNEL_H_DEFAULT_PORT, PORT_MAX, PORT_MAX + 1, 70000}
\* Ports the client targets in SpecPorts.
ProbePorts == {5000, CHANNEL_H_DEFAULT_PORT}
\* Arguments of the two concurrent receive calls of SpecRace: the default
\* argument and the port the client targets.
RacePorts == {0} \cup SendPorts
\* What constructing the std::string result from the literal 0, a null
\* pointer, does: undefined behaviour; the library throws std::logic_error
\* or the process dies on the null pointer.
NullStringOutcomes == {"throws", "crashes"}
\* "localhost" resolves to the machine of the server process; the other
\* name does not resolve.
CHANNEL_H_DEFAULT_HOST == "localhost"
Hosts == {CHANNEL_H_DEFAULT_HOST, "unknown.invalid"}
\* Delays in milliseconds.
Delays == {0, 1000}

\* A value that stands for a buffer cell that was never written.
Uninit == -1

\* ------------------------------------------------------------- sequences
SeqsUpTo(S, n) == UNION {[1..k -> S] : k \in 0..n}

Min(a, b) == IF a < b THEN a ELSE b

Prefix(s, n) == SubSeq(s, 1, n)

\* Number of entries of log whose event is ev.
RECURSIVE Count(_, _)
Count(log, ev) ==
    IF log = <<>> THEN 0
    ELSE (IF Head(log).ev = ev THEN 1 ELSE 0) + Count(Tail(log), ev)

\* An entry of a diagnostic / observation log.
Event(ev, arg) == [ev |-> ev, arg |-> arg]

\* ------------------------------------------------------------ conversions
\* message[i] (char) pushed into a vector of unsigned char.
CharToByte(c) == c % 256

\* unsigned char converted to char by std::string(data.begin(), data.end()).
ByteToChar(b) == IF b >= 128 THEN b - 256 ELSE b

\* Channel::send(const std::string&): the copy loop.
TextToBytes(text) == [i \in 1..Len(text) |-> CharToByte(text[i])]

\* Channel::receiveText: std::string(data.begin(), data.end()).
BytesToText(data) == [i \in 1..Len(data) |-> ByteToChar(data[i])]

\* Mutant: the range test has lost its upper limit.
ConstructPort_NoUpperLimit(port) ==
    IF port < 1 THEN CHANNEL_H_DEFAULT_PORT ELSE port

\* Channel::Channel(port): validation with fallback.
ConstructPort(port) ==
    IF port < 1 \/ port > PORT_MAX THEN CHANNEL_H_DEFAULT_PORT ELSE port

\* Mutant: the argument is used as it is, without the fallback.
EffectivePort_NoFallback(port, configured) == port

\* Channel::receive: the port of the acceptor's endpoint.
EffectivePort(port, configured) ==
    IF port >= 1 /\ port <= PORT_MAX THEN port ELSE configured

\* ------------------------------------------------------------------ state
VARIABLES
    ctorArg,    \* the port argument the server's Channel was constructed with
    port,       \* Channel::port of the server's Channel object
    view,       \* Channel<T>::view of the client's template Channel object
    sCall,      \* arguments of the client's current send call
    si,         \* the loop counter i of send (unsigned int)
    spc,        \* position of the client: idle, try, sleep, returned, exited
    sLog,       \* what the send call did, in order
    sOpen,      \* objects of the client's current call holding a resource
    listener,   \* port the server's acceptor is bound to, 0 when none
    backlog,    \* connections established on the listener, not yet accepted
    rCall,      \* arguments of the server's current receive call
    rpc,        \* position of the server: idle, accept, read, returned
    accepted,   \* connections accepted by the current receive call
    buffer,     \* the local array buffer of receive
    length,     \* the local length of receive
    error,      \* the local error of receive: unset, none, eof, reset
    data,       \* the Bytes returned by receive
    text,       \* the std::string returned by receiveText
    rLog,       \* what the receive call did, in order
    rOpen,      \* objects of the server's current call holding a resource
    rival,      \* a second receive call, concurrent with the server's
    tRecv,      \* the locals of the client's Channel<T>::receive call
    calls       \* the finished calls that were followed by another call

sendVars == <<view, sCall, si, spc, sLog, sOpen>>
netVars == <<listener, backlog>>
recvVars == <<ctorArg, port, rCall, rpc, accepted, buffer, length, error, data, text,
              rLog, rOpen>>
otherVars == <<rival, tRecv, calls>>
vars == <<sendVars, netVars, recvVars, otherVars>>

NoCall == [impl |-> "none"]

\* A connection as the server sees it: the bytes the peer put on it before
\* closing its socket.
Connection(bytes) == [bytes |-> bytes]

\* The objects declared in the try block of send: asio::io_context
\* io_context; tcp::socket socket(io_context); tcp::resolver
\* resolver(io_context).
SendLocals == {"io_context", "socket", "resolver"}

\* The objects declared in the try block of receive: asio::io_context
\* io_context; tcp::acceptor acceptor(...); tcp::socket socket.
ReceiveLocals == {"io_context", "acceptor", "socket"}

\* Mutant: the socket is not an automatic object of the try block, nothing
\* closes it.
ScopeExit_LeaksSocket(open, locals) == open \ (locals \ {"socket"})

\* Control leaving a try block (break, return, exception, end of block):
\* the automatic objects declared in it are destroyed, which closes what
\* they hold.
ScopeExit(open, locals) == open \ locals

\* Mutant: the acceptor shares the port (SO_REUSEPORT), the bind succeeds
\* whoever listens.
BindSucceeds_Shared(p, held) == TRUE

\* The constructor of tcp::acceptor (open, bind, listen) succeeds only on a
\* port no other acceptor listens on; held is the set of such ports.
BindSucceeds(p, held) == p \notin held

\* A second receive call that has not started.
NoRival == [pc |-> "idle", port |-> 0, listener |-> 0, backlog |-> <<>>,
            accepted |-> <<>>, length |-> Uninit, error |-> "unset",
            data |-> <<>>, log |-> <<>>]

\* An established connection reaches the acceptor listening on port p: the
\* server's or the second receive call's.
Deliver(p, conn) ==
    \/ /\ listener = p
       /\ backlog' = Append(backlog, conn)
       /\ UNCHANGED rival
    \/ /\ rival.listener = p
       /\ rival' = [rival EXCEPT !.backlog = Append(@, conn)]
       /\ UNCHANGED backlog

\* The ports some acceptor listens on.
Listening == {listener, rival.listener} \ {0}

\* ---------------------------------------------------------------- send
\* Mutant: the test for an empty message is missing.
EmptyMessage_Never(message) == FALSE

\* "if (message.size() == 0)" of channel.cpp, "if (message == "")" of
\* channel.hpp.
EmptyMessage(message) == Len(message) = 0

\* The loop condition "i < attempts".
LoopTest(i, attempts) == i < attempts

\* Mutant: the last attempt is taken to be i == attempts.
LastAttempt_OffByOne(i, attempts) == i = attempts % UINT_MOD

\* "if (i == attempts - 1)" in the catch block of channel.cpp, in unsigned
\* arithmetic.
LastAttempt(i, attempts) == i = (attempts - 1) % UINT_MOD

\* "i++" on an unsigned int.
Increment(i) == (i + 1) % UINT_MOD

\* Mutant: the buffer is one byte short, message.size() - 1.
WriteBuffer_Short(message) == Prefix(message, Len(message) - 1)

\* asio::const_buffer(&message[0], message.size()): the bytes one
\* asio::write call transfers.
WriteBuffer(message) == message

\* The duration handed to std::this_thread::sleep_for.
SleepDuration(delay_ms) == delay_ms

\* Mutant: the exit after the loop is not guarded by a test of i.
AfterLoop_ExitAlways(impl, i, attempts, log) ==
    [pc |-> "exited",
     log |-> log \o <<Event("exhausted", attempts), Event("exit", EXIT_STATUS)>>]

\* The statements after the for loop: none in channel.cpp; in channel.hpp
\* "if (i == attempts) { ...; std::exit(1); }".
AfterLoop(impl, i, attempts, log) ==
    IF impl = "hpp" /\ i = attempts
    THEN [pc |-> "exited",
          log |-> log \o <<Event("exhausted", attempts), Event("exit", EXIT_STATUS)>>]
    ELSE [pc |-> "returned", log |-> log]

\* The head of the for loop: the next attempt, or the end of the loop.
LoopHead(impl, i, attempts, log) ==
    IF LoopTest(i, attempts)
    THEN [pc |-> "try", log |-> log]
    ELSE AfterLoop(impl, i, attempts, log)

\* Mutant: the catch block of channel.cpp has no exit, as in channel.hpp.
CatchBlock_SleepAlways(impl, i, attempts, log) ==
    [pc |-> "sleep", log |-> Append(log, Event("report", i))]

\* The catch block up to the sleep: the report, and in channel.cpp the exit
\* on the last attempt.
CatchBlock(impl, i, attempts, log) ==
    LET reported == Append(log, Event("report", i)) IN
    IF impl = "cpp" /\ LastAttempt(i, attempts)
    THEN [pc |-> "exited",
          log |-> reported \o <<Event("exhausted", attempts), Event("exit", EXIT_STATUS)>>]
    ELSE [pc |-> "sleep", log |-> reported]

\* Entry of send up to the first blocking point.
SendEnter(call) ==
    /\ spc = "idle"
    /\ sCall' = call
    /\ si' = 0
    /\ LET next == IF EmptyMessage(call.message)
                   THEN [pc |-> "returned", log |-> <<>>]
                   ELSE LoopHead(call.impl, 0, call.attempts, <<>>)
       IN /\ spc' = next.pc
          /\ sLog' = next.log
    /\ UNCHANGED <<view, sOpen, netVars, recvVars, otherVars>>

\* Channel::send(const Bytes&, ...) of channel.cpp.
SendBytes ==
    \E m \in SeqsUpTo(ByteSample, MaxLen), p \in SendPorts, h \in Hosts,
       a \in 0..MaxAttempts, d \in Delays :
        /\ spc = "idle"
        /\ SendEnter([impl |-> "cpp", overload |-> "bytes", text |-> <<>>,
                      message |-> m, port |-> p, host |-> h,
                      attempts |-> a, delay_ms |-> d])

\* Channel::send(const std::string&, ...) of channel.cpp: converts and calls
\* the Bytes overload.
SendText ==
    \E m \in SeqsUpTo(CharSample, MaxLen), p \in SendPorts, h \in Hosts,
       a \in 0..MaxAttempts, d \in Delays :
        /\ spc = "idle"
        /\ SendEnter([impl |-> "cpp", overload |-> "text", text |-> m,
                      message |-> TextToBytes(m), port |-> p, host |-> h,
                      attempts |-> a, delay_ms |-> d])

\* Channel<T>::send of channel.hpp with T = std::string; c_str()/length()
\* hand the characters of the string to asio::write.
SendTemplate ==
    \E m \in SeqsUpTo(CharSample, MaxLen), p \in SendPorts, h \in Hosts,
       a \in 0..MaxAttempts, d \in Delays :
        /\ spc = "idle"
        /\ SendEnter([impl |-> "hpp", overload |-> "text", text |-> m,
                      message |-> TextToBytes(m), port |-> p, host |-> h,
                      attempts |-> a, delay_ms |-> d])

\* What a failed attempt leaves behind: the exception leaves the try block
\* before the catch block runs.
AttemptFails(log) ==
    LET next == CatchBlock(sCall.impl, si, sCall.attempts, log) IN
    /\ spc' = next.pc
    /\ sLog' = next.log
    /\ sOpen' = ScopeExit(sOpen \cup SendLocals, SendLocals)
    /\ UNCHANGED <<view, sCall, si, tRecv, calls>>

\* One pass of the try block in which resolver.resolve throws.
AttemptResolveFails ==
    /\ spc = "try"
    /\ sCall.host # CHANNEL_H_DEFAULT_HOST
    /\ AttemptFails(Append(sLog, Event("attempt", si)))
    /\ UNCHANGED <<netVars, recvVars, rival>>

\* One pass of the try block in which asio::connect throws: nothing
\* listens on the target port.
AttemptRefused ==
    /\ spc = "try"
    /\ sCall.host = CHANNEL_H_DEFAULT_HOST
    /\ sCall.port \notin Listening
    /\ AttemptFails(Append(sLog, Event("attempt", si)))
    /\ UNCHANGED <<netVars, recvVars, rival>>

\* One pass of the try block in which the connection is established and
\* asio::write throws before a byte is transferred; the socket is closed by
\* its destructor, so the server finds a connection closed without data.
AttemptWriteFails ==
    /\ spc = "try"
    /\ sCall.host = CHANNEL_H_DEFAULT_HOST
    /\ Deliver(sCall.port, Connection(<<>>))
    /\ AttemptFails(sLog \o <<Event("attempt", si), Event("connected", sCall.port)>>)
    /\ UNCHANGED <<listener, recvVars>>

\* One pass of the try block that succeeds: connect, one asio::write of the
\* whole buffer, (channel.hpp: view.push_back), break.
AttemptSucceeds ==
    /\ spc = "try"
    /\ sCall.host = CHANNEL_H_DEFAULT_HOST
    /\ Deliver(sCall.port, Connection(WriteBuffer(sCall.message)))
    /\ sOpen' = ScopeExit(sOpen \cup SendLocals, SendLocals)
    /\ view' = IF sCall.impl = "hpp" THEN Append(view, sCall.text) ELSE view
    /\ LET next == AfterLoop(sCall.impl, si, sCall.attempts,
                       sLog \o <<Event("attempt", si),
                                 Event("connected", sCall.port),
                                 Event("write", Len(WriteBuffer(sCall.message)))>>)
       IN /\ spc' = next.pc
          /\ sLog' = next.log
    /\ UNCHANGED <<sCall, si, listener, recvVars, tRecv, calls>>

\* std::this_thread::sleep_for(delay_ms), then i++ and the loop condition.
Sleep ==
    /\ spc = "sleep"
    /\ si' = Increment(si)
    /\ LET next == LoopHead(sCall.impl, Increment(si), sCall.attempts,
                            Append(sLog, Event("sleep", SleepDuration(sCall.delay_ms))))
       IN /\ spc' = next.pc
          /\ sLog' = next.log
    /\ UNCHANGED <<view, sCall, sOpen, netVars, recvVars, otherVars>>

\* -------------------------------------------------------------- receive
\* "byte buffer[CHANNEL_H_MAX_BUFFER];": indices 0..capacity-1, no cell
\* initialised.
FreshBuffer == [k \in 0..(CHANNEL_H_MAX_BUFFER - 1) |-> Uninit]

\* socket.read_some(asio::buffer(buffer), error) storing the n bytes read.
Fill(buf, bytes, n) ==
    [k \in DOMAIN buf |-> IF k < n THEN bytes[k + 1] ELSE buf[k]]

\* "buffer[CHANNEL_H_MAX_BUFFER - 1] = '\0'; if (length <
\* CHANNEL_H_MAX_BUFFER) { buffer[length] = '\0'; }"
Terminate(buf, len) ==
    LET last == [buf EXCEPT ![CHANNEL_H_MAX_BUFFER - 1] = SENTINEL] IN
    IF len < CHANNEL_H_MAX_BUFFER THEN [last EXCEPT ![len] = SENTINEL] ELSE last

\* The indices of buffer those two statements write.
SentinelIndices(len) ==
    {CHANNEL_H_MAX_BUFFER - 1} \cup (IF len < CHANNEL_H_MAX_BUFFER THEN {len} ELSE {})

\* The indices of "for (i = 0; i <= length; i++)".
CopyIndices(len) == 0..len

\* "data.push_back(buffer[i])" over the indices of the loop.  A read of a
\* cell outside the array, or of a cell never written, yields whatever the
\* memory holds: the byte g.
Copy(buf, len, g) ==
    [k \in 1..Cardinality(CopyIndices(len)) |->
        IF (k - 1) \in DOMAIN buf /\ buf[k - 1] # Uninit THEN buf[k - 1] ELSE g]

\* Mutant: receive goes back to accept while connections wait, as a server
\* loop would.
Return_Loops(kind, bytes, log) ==
    /\ rpc' = IF backlog # <<>> THEN "accept" ELSE "returned"
    /\ rOpen' = IF backlog # <<>> THEN rOpen \ {"socket"} ELSE {}
    /\ listener' = IF backlog # <<>> THEN listener ELSE 0
    /\ backlog' = backlog
    /\ data' = bytes
    /\ text' = IF kind = "receiveText" THEN BytesToText(bytes) ELSE <<>>
    /\ rLog' = Append(log, Event("return", Len(bytes)))

\* What receiveText makes of the Bytes of receive; receive itself has no
\* text result.
TextResult(kind, bytes) == IF kind = "receiveText" THEN BytesToText(bytes) ELSE <<>>

\* Leaving receive by "return data": the acceptor and the socket are
\* destroyed at the end of the try block (or by the unwinding), connections
\* still waiting on the listener are dropped.
Return(kind, bytes, log) ==
    /\ rpc' = "returned"
    /\ rOpen' = ScopeExit(rOpen, ReceiveLocals)
    /\ listener' = IF "acceptor" \in rOpen' THEN listener ELSE 0
    /\ backlog' = IF "acceptor" \in rOpen' THEN backlog ELSE <<>>
    /\ data' = bytes
    /\ text' = TextResult(kind, bytes)
    /\ rLog' = Append(log, Event("return", Len(bytes)))

\* Mutant: the handler does not match, the exception leaves receive.
Caught_Propagates(kind, bytes, log) ==
    /\ rpc' = "threw"
    /\ rOpen' = ScopeExit(rOpen, ReceiveLocals)
    /\ listener' = 0
    /\ backlog' = <<>>
    /\ data' = bytes
    /\ text' = <<>>
    /\ rLog' = log

\* "catch (std::exception& e)": asio::system_error is a std::exception, so
\* the handler reports it and control falls to "return data".
Caught(kind, bytes, log) == Return(kind, bytes, Append(log, Event("report", 0)))

\* Mutant: the clean end of stream is not tested, eof counts as no error.
Finish_EofFallsThrough(kind, err, buf, len, d, g, log) ==
    IF err \notin {"none", "eof"}
    THEN Caught(kind, d, Append(log, Event("throw", 0)))
    ELSE Return(kind, Copy(buf, len, g), log)

\* The statements after the sentinel writes: the test of error, the copy
\* loop, the handler.  d is data (still empty), g the byte a read outside
\* the buffer yields.
Finish(kind, err, buf, len, d, g, log) ==
    IF err = "eof" THEN Return(kind, d, log)
    ELSE IF err # "none" THEN Caught(kind, d, Append(log, Event("throw", 0)))
    ELSE Return(kind, Copy(buf, len, g), log)

\* The single read and everything after it: read_some stores n bytes and
\* sets error, the sentinels are written, then Finish.
ReadSome(bytes, n, err) ==
    /\ rpc = "read"
    /\ length' = n
    /\ error' = err
    /\ buffer' = Terminate(Fill(buffer, bytes, n), n)
    /\ \E g \in ByteSample \cup {SENTINEL} :
          Finish(rCall.kind, err, buffer', n, data, g, Append(rLog, Event("read", n)))
    /\ UNCHANGED <<ctorArg, port, rCall, accepted, sendVars, otherVars>>

\* The locals of receive at entry.
Locals(kind, p) ==
    /\ rCall' = [kind |-> kind, port |-> p]
    /\ buffer' = FreshBuffer
    /\ length' = Uninit
    /\ error' = "unset"
    /\ accepted' = <<>>

\* Entry of receive with the acceptor's constructor (open, bind, listen)
\* succeeding.
ReceiveEnter(kind, p) ==
    /\ rpc = "idle"
    /\ BindSucceeds(EffectivePort(p, port), {rival.listener})
    /\ Locals(kind, p)
    /\ rOpen' = {"io_context", "acceptor"}
    /\ data' = <<>>
    /\ text' = <<>>
    /\ listener' = EffectivePort(p, port)
    /\ backlog' = <<>>
    /\ rpc' = "accept"
    /\ rLog' = <<Event("bind", EffectivePort(p, port))>>
    /\ UNCHANGED <<ctorArg, port, sendVars, otherVars>>

\* Channel::receive(port)
Receive == \E p \in PortArgs : rpc = "idle" /\ ReceiveEnter("receive", p)

\* Channel::receiveText(port)
ReceiveText == \E p \in PortArgs : rpc = "idle" /\ ReceiveEnter("receiveText", p)

\* Entry of receive or receiveText with the acceptor's constructor
\* throwing (the port is taken by another process).
ReceiveBindFails ==
    \E kind \in {"receive", "receiveText"}, p \in PortArgs :
        /\ rpc = "idle"
        /\ Locals(kind, p)
        /\ Caught(kind, <<>>, <<Event("bind_failed", EffectivePort(p, port))>>)
        /\ UNCHANGED <<ctorArg, port, sendVars, otherVars>>

\* Mutant: accept does not wait for a connection, receive goes on to
\* "return data" without one.
Accept_NonBlocking ==
    /\ rpc = "accept"
    /\ backlog = <<>>
    /\ Return(rCall.kind, data, rLog)
    /\ UNCHANGED <<ctorArg, port, rCall, accepted, buffer, length, error, sendVars,
                   otherVars>>

\* acceptor.accept() returning the first waiting connection.
Accept ==
    /\ rpc = "accept"
    /\ backlog # <<>>
    /\ accepted' = Append(accepted, Head(backlog))
    /\ backlog' = Tail(backlog)
    /\ rpc' = "read"
    /\ rLog' = Append(rLog, Event("accept", Len(accepted) + 1))
    /\ rOpen' = rOpen \cup {"socket"}
    /\ UNCHANGED <<ctorArg, port, rCall, buffer, length, error, data, text, listener,
                   sendVars, otherVars>>

\* acceptor.accept() throwing.
AcceptFails ==
    /\ rpc = "accept"
    /\ Caught(rCall.kind, data, Append(rLog, Event("accept_failed", 0)))
    /\ UNCHANGED <<ctorArg, port, rCall, accepted, buffer, length, error, sendVars,
                   otherVars>>

\* read_some returning n >= 1 bytes without error: all the bytes of the
\* connection, or only a first segment of them, up to the capacity.
ReadData ==
    /\ rpc = "read"
    /\ LET bytes == accepted[Len(accepted)].bytes IN
       \E n \in 1..Min(Len(bytes), CHANNEL_H_MAX_BUFFER) : ReadSome(bytes, n, "none")

\* read_some returning 0 with asio::error::eof: the peer closed without
\* writing.
ReadEof ==
    /\ rpc = "read"
    /\ accepted[Len(accepted)].bytes = <<>>
    /\ ReadSome(<<>>, 0, "eof")

\* read_some returning 0 with another error (connection reset).
ReadError ==
    /\ rpc = "read"
    /\ ReadSome(<<>>, 0, "reset")

\* The client's Channel<T> object, constructed without argument, before any
\* receive call: its port and the locals of receive.
NoTemplateReceive ==
    [port |-> ConstructPort(CHANNEL_H_DEFAULT_PORT), listener |-> 0, conn |-> <<>>,
     data |-> FreshBuffer, length |-> Uninit, error |-> "unset", message |-> <<>>]

\* ---------------------------------------------------------- specification
\* The state after the server's Channel was constructed with argument arg;
\* the client and the server have made no call yet.
Constructed(arg) ==
    /\ ctorArg = arg
    /\ port = ConstructPort(arg)
    /\ view = <<>>
    /\ sCall = NoCall
    /\ si = 0
    /\ spc = "idle"
    /\ sLog = <<>>
    /\ sOpen = {}
    /\ listener = 0
    /\ backlog = <<>>
    /\ rCall = [kind |-> "none", port |-> 0]
    /\ rpc = "idle"
    /\ accepted = <<>>
    /\ buffer = FreshBuffer
    /\ length = Uninit
    /\ error = "unset"
    /\ data = <<>>
    /\ text = <<>>
    /\ rLog = <<>>
    /\ rOpen = {}
    /\ rival = NoRival
    /\ tRecv = NoTemplateReceive
    /\ calls = <<>>

\* The server's Channel is constructed without argument (the default
\* argument CHANNEL_H_DEFAULT_PORT) or with a port of its own.
Init == \E arg \in ServerPorts : Constructed(arg)

Next ==
    \/ SendBytes
    \/ SendText
    \/ SendTemplate
    \/ AttemptResolveFails
    \/ AttemptRefused
    \/ AttemptWriteFails
    \/ AttemptSucceeds
    \/ Sleep
    \/ Receive
    \/ ReceiveText
    \/ ReceiveBindFails
    \/ Accept
    \/ AcceptFails
    \/ ReadData
    \/ ReadEof
    \/ ReadError

Spec == Init /\ [][Next]_vars

\* The calls of process by among the finished calls.
CallsBy(by) == SelectSeq(calls, LAMBDA c : c.by = by)

\* The caller of the server's Channel calls receive or receiveText again
\* after the call has returned.
ReceiveAgain ==
    /\ rpc = "returned"
    /\ Len(CallsBy("server")) < MaxCalls - 1
    /\ calls' = Append(calls, [by |-> "server", op |-> rCall.kind, arg |-> rCall.port,
                               ok |-> error = "none", out |-> rLog[1].arg])
    /\ rpc' = "idle"
    /\ UNCHANGED <<ctorArg, port, rCall, accepted, buffer, length, error, data, text,
                   rLog, rOpen, netVars, sendVars, rival, tRecv>>

\* A send call of one byte to a port the server may listen on.
SendProbe ==
    \E p \in ProbePorts :
        /\ spc = "idle"
        /\ SendEnter([impl |-> "cpp", overload |-> "bytes", text |-> <<>>,
                      message |-> <<104>>, port |-> p, host |-> CHANNEL_H_DEFAULT_HOST,
                      attempts |-> 2, delay_ms |-> 0])

\* The server's Channel is constructed with any argument.
InitPorts == \E arg \in CtorArgs : Constructed(arg)

NextPorts ==
    \/ SendProbe
    \/ AttemptRefused
    \/ AttemptWriteFails
    \/ AttemptSucceeds
    \/ Sleep
    \/ Receive
    \/ ReceiveText
    \/ ReceiveBindFails
    \/ Accept
    \/ AcceptFails
    \/ ReadData
    \/ ReadEof
    \/ ReadError
    \/ ReceiveAgain

SpecPorts == InitPorts /\ [][NextPorts]_vars

\* ------------------------------------------------- a second receive call
\* Everything but the second receive call and the network.
notRival == <<sendVars, recvVars, tRecv, calls>>

\* Entry of the second receive call, on the server's Channel object, with
\* the acceptor's constructor succeeding.
RivalReceive ==
    \E p \in RacePorts :
        /\ rival.pc = "idle"
        /\ BindSucceeds(EffectivePort(p, port), {listener})
        /\ rival' = [NoRival EXCEPT !.pc = "accept", !.port = p,
                                    !.listener = EffectivePort(p, port),
                                    !.log = <<Event("bind", EffectivePort(p, port))>>]
        /\ UNCHANGED <<notRival, netVars>>

\* Entry of the second receive call with the acceptor's constructor
\* throwing because the server's acceptor listens on the port: the handler
\* reports, the empty data is returned.
RivalBindFails ==
    \E p \in RacePorts :
        /\ rival.pc = "idle"
        /\ ~BindSucceeds(EffectivePort(p, port), {listener})
        /\ rival' = [NoRival EXCEPT !.pc = "returned", !.port = p,
                                    !.log = <<Event("bind_failed", EffectivePort(p, port)),
                                              Event("report", 0), Event("return", 0)>>]
        /\ UNCHANGED <<notRival, netVars>>

\* acceptor.accept() of the second call.
RivalAccept ==
    /\ rival.pc = "accept"
    /\ rival.backlog # <<>>
    /\ rival' = [rival EXCEPT !.pc = "read", !.accepted = <<Head(rival.backlog)>>,
                              !.backlog = Tail(rival.backlog),
                              !.log = Append(@, Event("accept", 1))]
    /\ UNCHANGED <<notRival, netVars>>

\* The read of the second call, the sentinels, the test of error, the copy
\* loop and the return, which releases its acceptor.
RivalReadSome(bytes, n, err) ==
    /\ rival.pc = "read"
    /\ \E g \in ByteSample \cup {SENTINEL} :
         LET buf == Terminate(Fill(FreshBuffer, bytes, n), n)
             d == IF err = "none" THEN Copy(buf, n, g) ELSE <<>>
             seen == IF err \in {"none", "eof"}
                     THEN <<Event("read", n)>>
                     ELSE <<Event("read", n), Event("throw", 0), Event("report", 0)>>
         IN rival' = [rival EXCEPT !.pc = "returned", !.listener = 0, !.backlog = <<>>,
                                   !.length = n, !.error = err, !.data = d,
                                   !.log = @ \o seen \o <<Event("return", Len(d))>>]
    /\ UNCHANGED <<notRival, netVars>>

RivalReadData ==
    /\ rival.pc = "read"
    /\ LET bytes == rival.accepted[1].bytes IN
       \E n \in 1..Min(Len(bytes), CHANNEL_H_MAX_BUFFER) : RivalReadSome(bytes, n, "none")

RivalReadEof ==
    /\ rival.pc = "read"
    /\ rival.accepted[1].bytes = <<>>
    /\ RivalReadSome(<<>>, 0, "eof")

RivalReadError ==
    /\ rival.pc = "read"
    /\ RivalReadSome(<<>>, 0, "reset")

\* Entry of the server's receive call with the acceptor's constructor
\* throwing because the second call's acceptor listens on the port.
RaceReceiveLoses ==
    \E p \in RacePorts :
        /\ rpc = "idle"
        /\ ~BindSucceeds(EffectivePort(p, port), {rival.listener})
        /\ Locals("receive", p)
        /\ Caught("receive", <<>>, <<Event("bind_failed", EffectivePort(p, port))>>)
        /\ UNCHANGED <<ctorArg, port, sendVars, otherVars>>

\* Entry of the server's receive call in SpecRace.
RaceReceive == \E p \in RacePorts : rpc = "idle" /\ ReceiveEnter("receive", p)

\* The one send call of SpecRace.
SendRace ==
    \E m \in SeqsUpTo({104}, MaxLen) \ {<<>>} :
        /\ spc = "idle"
        /\ SendEnter([impl |-> "cpp", overload |-> "bytes", text |-> <<>>,
                      message |-> m, port |-> 5000, host |-> CHANNEL_H_DEFAULT_HOST,
                      attempts |-> 2, delay_ms |-> 0])

NextRace ==
    \/ SendRace
    \/ AttemptRefused
    \/ AttemptWriteFails
    \/ AttemptSucceeds
    \/ Sleep
    \/ RaceReceive
    \/ RaceReceiveLoses
    \/ Accept
    \/ AcceptFails
    \/ ReadData
    \/ ReadEof
    \/ ReadError
    \/ RivalReceive
    \/ RivalBindFails
    \/ RivalAccept
    \/ RivalReadData
    \/ RivalReadEof
    \/ RivalReadError

SpecRace == Init /\ [][NextRace]_vars

\* ------------------------------------------------ Channel<T>::receive
\* What a peer of the client's Channel<T> object writes on its connection:
\* bytes above 127, which the char array holds as negative values.
PeerMessages == SeqsUpTo({200}, MaxLen)
\* Messages and attempts values of the send calls of SpecView.
ViewTexts == SeqsUpTo(CharSample, 1)
ViewAttempts == 0..2

\* "message = data;": the characters of the array up to the first '\0'.
RECURSIVE CString(_, _)
CString(buf, k) ==
    IF k \notin DOMAIN buf \/ buf[k] = SENTINEL THEN <<>>
    ELSE <<buf[k]>> \o CString(buf, k + 1)

\* Everything but the client and its Channel<T> object.
notTemplate == <<netVars, recvVars, rival, calls>>

\* Leaving Channel<T>::receive: the acceptor is released.
TemplateReturn(t, v, log) ==
    /\ spc' = "returned"
    /\ tRecv' = [t EXCEPT !.listener = 0]
    /\ view' = v
    /\ sLog' = Append(log, Event("return", Len(t.message)))

\* Mutant: the message is recorded where it is assigned, before the tests
\* of error.
TemplateFinish_PushFirst(t, ub, log) ==
    IF t.error = "eof" /\ ub = "crashes"
    THEN /\ spc' = "crashed"
         /\ tRecv' = [t EXCEPT !.listener = 0]
         /\ view' = Append(view, t.message)
         /\ sLog' = Append(log, Event("crash", 0))
    ELSE TemplateReturn(t, Append(view, t.message),
                        IF t.error = "none" THEN log
                        ELSE log \o <<Event("throw", 0), Event("report", 0)>>)

\* The statements of Channel<T>::receive after "message = data": "return
\* 0" on eof, whose conversion to T throws into the handler or ends the
\* process (ub); the throw on another error; view.push_back(message); the
\* handler; "return message".
TemplateFinish(t, ub, log) ==
    IF t.error = "eof" /\ ub = "crashes"
    THEN /\ spc' = "crashed"
         /\ tRecv' = [t EXCEPT !.listener = 0]
         /\ view' = view
         /\ sLog' = Append(log, Event("crash", 0))
    ELSE IF t.error # "none"
    THEN TemplateReturn(t, view, log \o <<Event("throw", 0), Event("report", 0)>>)
    ELSE TemplateReturn(t, Append(view, t.message), log)

\* The single read of Channel<T>::receive and everything after it: the
\* bytes land in the char array, the sentinels are written, message is
\* assigned, then TemplateFinish.
TemplateReadSome(bytes, n, err) ==
    /\ spc = "read"
    /\ LET buf == Terminate(Fill(tRecv.data, BytesToText(bytes), n), n)
           t == [tRecv EXCEPT !.data = buf, !.length = n, !.error = err,
                              !.message = CString(buf, 0)]
       IN \E ub \in NullStringOutcomes :
            TemplateFinish(t, ub, Append(sLog, Event("read", n)))
    /\ UNCHANGED <<sCall, si, sOpen, notTemplate>>

\* Entry of Channel<T>::receive with the acceptor bound to this->port.
TemplateReceive ==
    /\ spc = "idle"
    /\ sCall' = [impl |-> "hpp", overload |-> "receive"]
    /\ tRecv' = [NoTemplateReceive EXCEPT !.port = tRecv.port, !.listener = tRecv.port]
    /\ spc' = "accept"
    /\ sLog' = <<Event("bind", tRecv.port)>>
    /\ UNCHANGED <<view, si, sOpen, notTemplate>>

\* Entry of Channel<T>::receive with the acceptor's constructor throwing.
TemplateBindFails ==
    /\ spc = "idle"
    /\ sCall' = [impl |-> "hpp", overload |-> "receive"]
    /\ TemplateReturn([NoTemplateReceive EXCEPT !.port = tRecv.port, !.error = "bind"],
                      view, <<Event("bind_failed", tRecv.port), Event("report", 0)>>)
    /\ UNCHANGED <<si, sOpen, notTemplate>>

\* acceptor.accept(): a peer has connected, written its bytes and closed.
TemplateAccept ==
    /\ spc = "accept"
    /\ \E bytes \in PeerMessages : tRecv' = [tRecv EXCEPT !.conn = bytes]
    /\ spc' = "read"
    /\ sLog' = Append(sLog, Event("accept", 1))
    /\ UNCHANGED <<view, sCall, si, sOpen, notTemplate>>

TemplateReadData ==
    /\ spc = "read"
    /\ \E n \in 1..Min(Len(tRecv.conn), CHANNEL_H_MAX_BUFFER) :
         TemplateReadSome(tRecv.conn, n, "none")

TemplateReadEof ==
    /\ spc = "read"
    /\ tRecv.conn = <<>>
    /\ TemplateReadSome(<<>>, 0, "eof")

TemplateReadError ==
    /\ spc = "read"
    /\ TemplateReadSome(<<>>, 0, "reset")

\* The caller of the client's Channel<T> object makes another call after
\* one has returned.
CallAgain ==
    /\ spc = "returned"
    /\ sCall.impl = "hpp"
    /\ Len(CallsBy("client")) < MaxCalls - 1
    /\ calls' = Append(calls,
                  IF sCall.overload = "receive"
                  THEN [by |-> "client", op |-> "receive", arg |-> tRecv.conn,
                        ok |-> tRecv.error = "none", out |-> tRecv.message]
                  ELSE [by |-> "client", op |-> "send", arg |-> sCall.text,
                        ok |-> Count(sLog, "write") = 1, out |-> sCall.text])
    /\ spc' = "idle"
    /\ UNCHANGED <<view, sCall, si, sLog, sOpen, netVars, recvVars, rival, tRecv>>

\* Channel<T>::send in SpecView.
SendView ==
    \E m \in ViewTexts, a \in ViewAttempts :
        /\ spc = "idle"
        /\ SendEnter([impl |-> "hpp", overload |-> "text", text |-> m,
                      message |-> TextToBytes(m), port |-> 5000,
                      host |-> CHANNEL_H_DEFAULT_HOST, attempts |-> a, delay_ms |-> 0])

\* The server of SpecView: one receive call on the port the client targets.
ViewListen == rpc = "idle" /\ ReceiveEnter("receive", 5000)

NextView ==
    \/ SendView
    \/ AttemptRefused
    \/ AttemptWriteFails
    \/ AttemptSucceeds
    \/ Sleep
    \/ TemplateReceive
    \/ TemplateBindFails
    \/ TemplateAccept
    \/ TemplateReadData
    \/ TemplateReadEof
    \/ TemplateReadError
    \/ CallAgain
    \/ ViewListen
    \/ Accept
    \/ ReadData
    \/ ReadEof

SpecView == Init /\ [][NextView]_vars

\* ------------------------------------------------------- reading the logs
Last(log) == log[Len(log)]

Front(log) == SubSeq(log, 1, Len(log) - 1)

\* The log without the entries that say a connection was established.
Unconnected(log) == SelectSeq(log, LAMBDA e : e.ev # "connected")

\* What attempts i .. n-1 of send leave in the log when each of them fails
\* and a delay d is waited between two consecutive attempts.
RECURSIVE FailedAttempts(_, _, _)
FailedAttempts(i, n, d) ==
    IF i >= n THEN <<>>
    ELSE <<Event("attempt", i), Event("report", i)>>
         \o (IF i < n - 1 THEN <<Event("sleep", d)>> ELSE <<>>)
         \o FailedAttempts(i + 1, n, d)

\* A receive call met a transport error other than a clean end of stream.
ReceiveFailed ==
    \/ Count(rLog, "bind_failed") > 0
    \/ Count(rLog, "accept_failed") > 0
    \/ error = "reset"

\* The receive call read, in its single read and without error, the whole
\* message of a send call whose write succeeded.
WholeMessageRead ==
    /\ rpc = "returned"
    /\ error = "none"
    /\ Count(sLog, "write") = 1
    /\ Last(accepted).bytes = sCall.message
    /\ length = Len(sCall.message)

\* ------------------------------------------------------------------ claims
\* C1: round trip of the text convenience: when send(m, P) of a non-empty
\* text m shorter than the buffer capacity is read whole by the single read
\* of receiveText(P), receiveText returns a text equal to m.
C1_TextRoundTrip ==
    ( /\ WholeMessageRead
      /\ rCall.kind = "receiveText"
      /\ sCall.impl = "cpp"
      /\ sCall.overload = "text"
      /\ sCall.text # <<>>
      /\ Len(sCall.text) < CHANNEL_H_MAX_BUFFER )
    => text = sCall.text

\* C2: retry exhaustion: a send of channel.cpp with a non-empty message and
\* attempts = N >= 1 whose attempts all fail never returns and never makes
\* more than N attempts; when it ends it has made exactly N attempts, each
\* followed by its report, with the configured delay between consecutive
\* attempts, and then exits with a non-zero status.
C2_RetryExhaustion ==
    ( /\ sCall.impl = "cpp"
      /\ sCall.message # <<>>
      /\ sCall.attempts >= 1
      /\ Count(sLog, "write") = 0 )
    => /\ spc \in {"try", "sleep", "exited"}
       /\ Count(sLog, "attempt") <= sCall.attempts
       /\ spc = "exited" =>
            /\ Front(Unconnected(sLog))
                 = Append(FailedAttempts(0, sCall.attempts, sCall.delay_ms),
                          Event("exhausted", sCall.attempts))
            /\ Last(sLog).ev = "exit"
            /\ Last(sLog).arg # 0

C2_Witness ==
    /\ spc = "exited"
    /\ sCall.impl = "cpp"
    /\ sCall.attempts = MaxAttempts
    /\ sCall.host = CHANNEL_H_DEFAULT_HOST
    /\ Count(sLog, "connected") = 0
    /\ Count(sLog, "sleep") = MaxAttempts - 1

\* C3: a send of channel.cpp with a non-empty message returns to its caller
\* only after one write of the whole message has succeeded, for every value
\* of attempts.
C3_ReturnOnlyAfterWrite ==
    (sCall.impl = "cpp" /\ sCall.message # <<>> /\ spc = "returned")
    => /\ Count(sLog, "write") = 1
       /\ Last(sLog) = Event("write", Len(sCall.message))

\* C4: success stops the retry loop: once the k-th attempt has written the
\* message, send has returned, having made exactly k attempts, k-1 reports
\* and k-1 delays, with k <= attempts; the write is the last thing the call
\* did, it happened once, and the process was not terminated.
C4_SuccessStopsLoop ==
    Count(sLog, "write") >= 1
    => /\ spc = "returned"
       /\ Count(sLog, "write") = 1
       /\ Last(sLog).ev = "write"
       /\ Count(sLog, "attempt") = si + 1
       /\ Count(sLog, "attempt") <= sCall.attempts
       /\ Count(sLog, "report") = Count(sLog, "attempt") - 1
       /\ Count(sLog, "sleep") = Count(sLog, "attempt") - 1
       /\ Count(sLog, "exit") = 0

C4_Witness ==
    /\ Count(sLog, "write") = 1
    /\ Count(sLog, "attempt") = MaxAttempts
    /\ spc = "returned"

\* C5: send with an empty message (bytes or text, channel.cpp or
\* channel.hpp) returns at once: no attempt, no connection, no delay, no
\* report, no exit, nothing recorded in view, whatever the port, host,
\* attempts and delay.
C5_EmptyMessageNoOp ==
    (sCall.impl # "none" /\ sCall.message = <<>>)
    => /\ spc = "returned"
       /\ sLog = <<>>
       /\ view = <<>>
       /\ backlog = <<>>
       /\ accepted = <<>>

C5_Witness ==
    /\ sCall.impl = "hpp"
    /\ sCall.text = <<>>
    /\ sCall.attempts = 0
    /\ listener = sCall.port
    /\ spc = "returned"

C7_CapacityBoundary ==
    (rpc = "returned" /\ error = "none" /\ length = CHANNEL_H_MAX_BUFFER)
    => data = Append(Prefix(Last(accepted).bytes, CHANNEL_H_MAX_BUFFER - 1), SENTINEL)

\* C8: result length: when the single read of receive returns n bytes
\* without error, 1 <= n < capacity, the result has length n and equals
\* the n bytes read.
C8_ResultLength ==
    (rpc = "returned" /\ error = "none" /\ length >= 1
        /\ length < CHANNEL_H_MAX_BUFFER)
    => data = Prefix(Last(accepted).bytes, length)

\* C9: clean EOF: when the accepted peer closed without writing a byte,
\* receive returns an empty byte sequence (receiveText an empty text),
\* reports nothing and throws nothing.
C9_CleanEof ==
    error = "eof"
    => /\ rpc = "returned"
       /\ data = <<>>
       /\ text = <<>>
       /\ Count(rLog, "report") = 0
       /\ Count(rLog, "throw") = 0
       /\ Last(rLog) = Event("return", 0)

C9_Witness ==
    /\ error = "eof"
    /\ rpc = "returned"
    /\ Last(accepted).bytes = <<>>
    /\ length = 0

\* C10: receive swallows errors: a receive call is never in a position
\* other than idle, accept, read and returned (no fatal state, no exception
\* leaving the call), it binds, accepts and reads at most once, and after a
\* failure to bind, to accept or to read it has reported the error once and
\* returned an empty byte sequence, with the listener closed.
C10_ReceiveSwallowsErrors ==
    /\ rpc \in {"idle", "accept", "read", "returned"}
    /\ Count(rLog, "bind") + Count(rLog, "bind_failed") <= 1
    /\ Count(rLog, "accept") + Count(rLog, "accept_failed") <= 1
    /\ Count(rLog, "read") <= 1
    /\ ReceiveFailed =>
         /\ rpc = "returned"
         /\ data = <<>>
         /\ text = <<>>
         /\ Count(rLog, "report") = 1
         /\ Last(rLog) = Event("return", 0)
         /\ listener = 0

C10_Witness ==
    /\ error = "reset"
    /\ rpc = "returned"
    /\ Last(accepted).bytes # <<>>
    /\ Count(rLog, "report") = 1

\* C11: one accept, one read: a receive call accepts at most one
\* connection and reads at most once; of a message arriving in several
\* segments only the bytes of the first read reach the buffer and the
\* result, and connections that arrive after the accepted one are dropped
\* with the listener, never accepted.
C11_OneAcceptOneRead ==
    /\ Len(accepted) <= 1
    /\ Count(rLog, "accept") <= 1
    /\ Count(rLog, "read") <= 1
    /\ (rpc = "returned" /\ error = "none") =>
         LET bytes == accepted[1].bytes
             kept == Min(length, CHANNEL_H_MAX_BUFFER - 1)
         IN /\ length <= Len(bytes)
            /\ Prefix(data, kept) = Prefix(bytes, kept)
            /\ Len(data) <= length + 1
            /\ \A k \in DOMAIN buffer :
                 k >= length => buffer[k] \in {SENTINEL, Uninit}
    /\ rpc = "returned" => (backlog = <<>> /\ listener = 0)

C11_Witness ==
    /\ rpc = "returned"
    /\ error = "none"
    /\ length = 1
    /\ Len(accepted[1].bytes) = MaxLen
    /\ MaxLen > 1

\* C12 as stated: no spurious return: whenever receive has returned, it
\* had accepted an inbound connection before.
C12_NoSpuriousReturn ==
    rpc = "returned" => (Count(rLog, "accept") = 1 /\ Len(accepted) = 1)

\* C12 amended: a receive call that has returned without a failure of its
\* bind or of its accept had accepted an inbound connection, and read it,
\* before; while no connection has arrived it stays in accept.
C12_ReturnAfterAcceptUnlessFailed ==
    /\ ( /\ rpc = "returned"
         /\ Count(rLog, "bind_failed") = 0
         /\ Count(rLog, "accept_failed") = 0 )
       => /\ Len(accepted) = 1
          /\ Count(rLog, "accept") = 1
          /\ Count(rLog, "read") = 1
    /\ rpc = "read" => Len(accepted) = 1

C12_Witness ==
    /\ rpc = "returned"
    /\ Count(rLog, "bind_failed") = 0
    /\ Count(rLog, "accept_failed") = 0
    /\ Count(sLog, "report") >= 1
    /\ error = "none"

\* C17: buffer bounds in receive: every index at which receive writes the
\* buffer (the sentinels) or reads it (the copy loop) lies in
\* 0 .. capacity-1, for every read length up to the capacity.
C17_BufferBounds ==
    length # Uninit
    => /\ SentinelIndices(length) \subseteq 0..(CHANNEL_H_MAX_BUFFER - 1)
       /\ (rpc = "returned" /\ error = "none")
            => CopyIndices(length) \subseteq 0..(CHANNEL_H_MAX_BUFFER - 1)

\* C18: delay placement in send of channel.cpp: every delay is the
\* configured one, follows the report of a failed attempt and is followed
\* by the next attempt; every report is followed by a delay or, on the last
\* attempt, by the exit; nothing follows a successful write; so an
\* exhausted call of N attempts waited N-1 delays.
C18_DelayPlacement ==
    sCall.impl = "cpp"
    => /\ \A j \in 1..Len(sLog) :
            sLog[j].ev = "sleep"
            => /\ j > 1
               /\ sLog[j - 1].ev = "report"
               /\ sLog[j].arg = sCall.delay_ms
               /\ IF j < Len(sLog) THEN sLog[j + 1].ev = "attempt" ELSE spc = "try"
       /\ \A j \in 1..Len(sLog) :
            sLog[j].ev = "report"
            => IF j < Len(sLog)
               THEN sLog[j + 1].ev \in {"sleep", "exhausted"}
               ELSE spc = "sleep"
       /\ \A j \in 1..Len(sLog) : sLog[j].ev = "write" => j = Len(sLog)
       /\ sLog # <<>> => Head(sLog).ev = "attempt"
       /\ spc = "exited"
            => /\ Count(sLog, "sleep") = Count(sLog, "attempt") - 1
               /\ Count(sLog, "attempt") = sCall.attempts
               /\ SubSeq(sLog, Len(sLog) - 2, Len(sLog))
                    = <<Event("report", sCall.attempts - 1),
                        Event("exhausted", sCall.attempts),
                        Event("exit", EXIT_STATUS)>>

C18_Witness ==
    /\ sCall.impl = "cpp"
    /\ spc = "exited"
    /\ Count(sLog, "connected") >= 1
    /\ Count(sLog, "sleep") = MaxAttempts - 1
    /\ sCall.delay_ms > 0

\* What send does from the head of its loop with counter i when attempt k
\* succeeds exactly if ok[k + 1] holds (attempts beyond ok fail).
RECURSIVE Replay(_, _, _, _, _, _)
Replay(impl, attempts, d, i, ok, log) ==
    LET head == LoopHead(impl, i, attempts, log) IN
    IF head.pc # "try" THEN head
    ELSE IF i + 1 <= Len(ok) /\ ok[i + 1]
    THEN AfterLoop(impl, i, attempts,
                   log \o <<Event("attempt", i), Event("write", 0)>>)
    ELSE LET c == CatchBlock(impl, i, attempts, Append(log, Event("attempt", i))) IN
         IF c.pc # "sleep" THEN c
         ELSE Replay(impl, attempts, d, Increment(i), ok,
                     Append(c.log, Event("sleep", SleepDuration(d))))

\* Outcome, number of attempts and number of delays of a run of send.
Summary(pc, log) == <<pc, Count(log, "attempt"), Count(log, "sleep")>>

\* The outcomes of the attempts the finished call made.
Outcomes(log) ==
    [k \in 1..Count(log, "attempt") |->
        Count(log, "write") = 1 /\ k = Count(log, "attempt")]

\* C19: the two send implementations agree: on the message, the attempts
\* value and the attempt outcomes of a finished send call, channel.cpp and
\* channel.hpp make the same number of attempts, wait the same number of
\* delays and end the same way.
C19_SendsAgree ==
    (spc \in {"returned", "exited"} /\ sCall.impl # "none" /\ sCall.message # <<>>)
    => LET cpp == Replay("cpp", sCall.attempts, sCall.delay_ms, 0, Outcomes(sLog), <<>>)
           hpp == Replay("hpp", sCall.attempts, sCall.delay_ms, 0, Outcomes(sLog), <<>>)
           own == IF sCall.impl = "cpp" THEN cpp ELSE hpp
       IN /\ Summary(own.pc, own.log) = Summary(spc, sLog)
          /\ Summary(cpp.pc, cpp.log) = Summary(hpp.pc, hpp.log)

\* C15: resource release: between the attempts of send, while send sleeps
\* and once send has returned or ended the process, no socket, resolver or
\* io_context of the call is open; receive holds its acceptor, and from the
\* accept on its socket, only while it runs: once it has returned, after a
\* read, a clean end of stream or an error, nothing is open and no listener
\* is bound.
C15_ResourceRelease ==
    /\ sOpen = {}
    /\ rpc \in {"idle", "returned"} => (rOpen = {} /\ listener = 0)
    /\ rpc = "accept" => rOpen = {"io_context", "acceptor"}
    /\ rpc = "read" => rOpen = {"io_context", "acceptor", "socket"}
    /\ listener # 0 <=> "acceptor" \in rOpen

C15_Witness ==
    /\ spc = "exited"
    /\ Count(sLog, "connected") >= 1
    /\ Count(sLog, "sleep") >= 1
    /\ rpc = "returned"
    /\ error = "eof"
    /\ rOpen = {}

\* The port an argument in 1..65535 selects, and the fallback otherwise.
InRange(p) == p \in 1..PORT_MAX

\* C13: constructor fallback: a Channel constructed with a port outside
\* 1..65535 has the configured port of a Channel constructed without
\* argument, 10000; one constructed with a port inside 1..65535 has that
\* port; so the configured port always lies in 1..65535.
C13_ConstructorFallback ==
    /\ InRange(ctorArg) => port = ctorArg
    /\ ~InRange(ctorArg) => (port = 10000 /\ port = ConstructPort(CHANNEL_H_DEFAULT_PORT))
    /\ InRange(port)

C13_Witness ==
    /\ ctorArg < 0
    /\ port = 10000
    /\ rpc = "accept"
    /\ rCall.port = 0
    /\ listener = 10000

\* C14: effective listening port: a receive call with argument p listens
\* on p when p is in 1..65535 and on the configured port otherwise; this
\* holds of every call of a sequence, whatever the calls before it were
\* given, and the configured port stays what the constructor made of its
\* argument.
C14_EffectivePort ==
    LET Bound(p) == IF InRange(p) THEN p ELSE port IN
    /\ port = (IF InRange(ctorArg) THEN ctorArg ELSE 10000)
    /\ rpc \in {"accept", "read"} => listener = Bound(rCall.port)
    /\ rLog # <<>> => rLog[1].arg = Bound(rCall.port)
    /\ \A k \in 1..Len(calls) :
         calls[k].by = "server" => calls[k].out = Bound(calls[k].arg)

C14_Witness ==
    /\ ~InRange(ctorArg)
    /\ Len(CallsBy("server")) >= 1
    /\ CallsBy("server")[1].arg = 5000
    /\ CallsBy("server")[1].ok
    /\ rCall.port = 0
    /\ rpc = "accept"
    /\ listener = 10000

\* C16: concurrent receives on one port, one sender: the two calls never
\* hold a listener on the same port at the same time; at most one of them
\* returns bytes of the sender's message; a call whose bind failed has
\* accepted nothing and returns the empty result; and every connection the
\* sender established is waiting at, or was accepted by, at most one call,
\* the winner reading the sender's own bytes.
C16_ConcurrentReceives ==
    LET got == rpc = "returned" /\ error = "none"
        rivalGot == rival.pc = "returned" /\ rival.error = "none"
        kept == Min(length, CHANNEL_H_MAX_BUFFER - 1)
        rivalKept == Min(rival.length, CHANNEL_H_MAX_BUFFER - 1)
    IN /\ ~(listener # 0 /\ listener = rival.listener)
       /\ ~(got /\ rivalGot)
       /\ Count(rLog, "bind_failed") = 1 => (accepted = <<>> /\ data = <<>>)
       /\ Count(rival.log, "bind_failed") = 1
            => (rival.accepted = <<>> /\ rival.data = <<>> /\ rival.listener = 0)
       /\ Len(accepted) + Len(backlog) + Len(rival.accepted) + Len(rival.backlog)
            <= Count(sLog, "connected")
       /\ got => Prefix(data, kept) = Prefix(sCall.message, kept)
       /\ rivalGot => Prefix(rival.data, rivalKept) = Prefix(sCall.message, rivalKept)

C16_Witness ==
    /\ rpc = "returned"
    /\ error = "none"
    /\ length = Len(sCall.message)
    /\ rival.pc = "returned"
    /\ Count(rival.log, "bind_failed") = 1
    /\ rival.log[1].arg = rLog[1].arg

\* The view entries of a sequence of finished calls.
RECURSIVE Entries(_)
Entries(cs) ==
    IF cs = <<>> THEN <<>>
    ELSE (IF Head(cs).ok THEN <<Head(cs).out>> ELSE <<>>) \o Entries(Tail(cs))

\* The view entry of the client's current call, so far.
CurrentEntry ==
    IF spc = "idle" \/ sCall.impl # "hpp" THEN <<>>
    ELSE IF sCall.overload = "receive"
    THEN (IF spc = "returned" /\ tRecv.error = "none" THEN <<tRecv.message>> ELSE <<>>)
    ELSE (IF Count(sLog, "write") = 1 THEN <<sCall.text>> ELSE <<>>)

\* C20: view record of Channel<T>: view holds, in call order, the message
\* of each send whose write succeeded and the message returned by each
\* receive whose read ended without error, and nothing else: no entry for
\* a failed attempt, an empty message, a clean end of stream or an error.
C20_ViewRecord ==
    /\ view = Entries(CallsBy("client")) \o CurrentEntry
    /\ \A k \in 1..Len(calls) :
         (calls[k].by = "client" /\ calls[k].ok)
         => IF calls[k].op = "send"
            THEN calls[k].out = calls[k].arg /\ calls[k].arg # <<>>
            ELSE \E n \in 1..Len(calls[k].arg) :
                   calls[k].out = BytesToText(Prefix(calls[k].arg,
                                                     Min(n, CHANNEL_H_MAX_BUFFER - 1)))

C20_Witness ==
    /\ Len(view) = 2
    /\ Len(CallsBy("client")) = 1
    /\ CallsBy("client")[1].op = "send"
    /\ sCall.overload = "receive"
    /\ spc = "returned"
    /\ tRecv.message = <<-56>>

====
